---- MODULE Spec2Model ----
(***************************************************************************)
(* A model of substack_dl/main.py: the archive walk (get_all_post_urls),  *)
(* the incremental log (load_download_log / save_to_download_log), the    *)
(* per-post pipeline (process_single_post) and the orchestrator (cli).    *)
(*                                                                         *)
(* Strings that the code takes apart (URLs, dates, keyword lists) are      *)
(* sequences of tokens, so that urljoin, urlparse, split and strip are     *)
(* computed and not assumed.                                               *)
(***************************************************************************)
EXTENDS Integers, Sequences, FiniteSets, TLC

\* ------------------------------------------------------------------------
\* Bounds of the model
\* ------------------------------------------------------------------------

\* number of archive pages a site serves links on; later pages are empty
MaxPage == 2

\* ------------------------------------------------------------------------
\* Sequence helpers
\* ------------------------------------------------------------------------

Range(s) == {s[i] : i \in 1..Len(s)}

\* index of the first occurrence of tok in s, or Len(s)+1
FirstIndex(s, tok) ==
    IF \E i \in 1..Len(s) : s[i] = tok
    THEN CHOOSE i \in 1..Len(s) : s[i] = tok /\ \A j \in 1..(i-1) : s[j] # tok
    ELSE Len(s) + 1

Min2(a, b) == IF a <= b THEN a ELSE b

\* ------------------------------------------------------------------------
\* URLs: a URL string is a sequence of tokens
\*   <<"http://", host, path tokens..., "?", query, "#", fragment>>
\* a relative reference has no scheme and host tokens.
\* ------------------------------------------------------------------------

Scheme == "http://"
Hosts == {"h1", "h2"}
OtherHost(h) == IF h = "h1" THEN "h2" ELSE "h1"

\* current_substack_url.rstrip('/') + '/'
NormalizedRoot(h) == <<Scheme, h, "/">>

\* urljoin(substack_url, href): an absolute href is kept, a path-absolute
\* href replaces the path of the base
urljoin(base, href) ==
    IF Len(href) > 0 /\ href[1] = Scheme
    THEN href
    ELSE <<base[1], base[2]>> \o href

\* urlparse(u).netloc
netloc(u) == IF Len(u) >= 2 /\ u[1] = Scheme THEN u[2] ELSE ""

\* urlparse(u).path: what follows the netloc up to the first "?" or "#"
urlpath(u) ==
    LET start == IF Len(u) >= 2 /\ u[1] = Scheme THEN 3 ELSE 1
        stop  == Min2(FirstIndex(u, "?"), FirstIndex(u, "#"))
    IN  IF stop <= start THEN <<>> ELSE SubSeq(u, start, stop - 1)

\* urlparse(u).query: what follows the first "?" that precedes any "#"
urlquery(u) ==
    LET q == FirstIndex(u, "?")
        f == FirstIndex(u, "#")
    IN  IF q < f THEN SubSeq(u, q + 1, f - 1) ELSE <<>>

\* full_url.split('?')[0]
SplitQuery(u) == SubSeq(u, 1, FirstIndex(u, "?") - 1)

\* "/p/" in s   (substring test; "/p/" is one token)
HasPostMarker(s) == "/p/" \in Range(s)

\* ------------------------------------------------------------------------
\* The archive pages a site can serve.  A link is an <a> element: its href
\* and whether one of the narrow selectors (.portable-archive-post a,
\* .post-preview a, a.pencraft) matches it.
\* ------------------------------------------------------------------------

Link(href, narrow) == [href |-> href, narrow |-> narrow]

PageKinds == {"empty", "nopost", "A", "AB", "foreign", "C", "BC", "frag",
              "AT"}

PageLinks(kind, h) ==
    CASE kind = "empty"   -> {}
      [] kind = "nopost"  -> {Link(<<"/about">>, TRUE)}
      [] kind = "A"       -> {Link(<<"/p/", "a">>, TRUE),
                              Link(<<Scheme, h, "/p/", "a", "?", "q1">>, TRUE)}
      [] kind = "AB"      -> {Link(<<Scheme, h, "/p/", "a", "?", "q2">>, FALSE),
                              Link(<<Scheme, h, "/p/", "b">>, FALSE),
                              Link(<<Scheme, h, "/about", "?", "/p/">>, FALSE)}
      [] kind = "foreign" -> {Link(<<Scheme, OtherHost(h), "/p/", "c">>, FALSE),
                              Link(<<"/about", "?", "/p/">>, FALSE)}
      [] kind = "C"       -> {Link(<<"/p/", "c">>, TRUE),
                              Link(<<Scheme, h, "/p/", "b">>, FALSE)}
      [] kind = "BC"      -> {Link(<<"/p/", "b", "?", "q1">>, FALSE),
                              Link(<<"/p/", "c", "?", "q1", "?", "q2">>, FALSE)}
      [] kind = "frag"    -> {Link(<<"/p/", "c", "?", "q1", "#", "f">>, FALSE),
                              Link(<<"/p/", "c", "#", "f">>, FALSE)}
      [] kind = "AT"      -> {Link(<<"/p/", "a">>, TRUE),
                              Link(<<"/p/", "t">>, TRUE)}

\* what requests.get can do for one request
FetchOutcomes == {"ok", "404", "http_error", "network_error", "unexpected"}

\* ------------------------------------------------------------------------
\* get_all_post_urls: one iteration of the while loop
\* ------------------------------------------------------------------------

\* soup.select(narrow selectors), else soup.select('a[href*="/p/"]')
links_on_page(links) ==
    LET narrow == {l \in links : l.narrow /\ HasPostMarker(l.href)}
        broad  == {l \in links : HasPostMarker(l.href)}
    IN  IF narrow # {} THEN narrow ELSE broad

\* the link survives the host and path filter
ValidLink(substack_url, href) ==
    LET full_url == urljoin(substack_url, href)
    IN  /\ netloc(full_url) = netloc(substack_url)
        /\ HasPostMarker(urlpath(full_url))

current_page_urls(substack_url, links) ==
    {SplitQuery(urljoin(substack_url, l.href)) :
        l \in {k \in links_on_page(links) : ValidLink(substack_url, k.href)}}

\* WalkStops without the check for new URLs (lines 248-251 left out)
WalkStops_without_new_check(substack_url, links, all_post_urls) ==
    \/ links_on_page(links) = {}
    \/ current_page_urls(substack_url, links) = {}

\* the loop stops at this page: no links, no valid URLs, or no new URLs
WalkStops(substack_url, links, all_post_urls) ==
    \/ links_on_page(links) = {}
    \/ current_page_urls(substack_url, links) = {}
    \/ current_page_urls(substack_url, links) \ all_post_urls = {}

\* WalkCatches without the last clause, except Exception
WalkCatches_requests_only(outcome) ==
    outcome \in {"404", "http_error", "network_error"}

\* the except clauses of the loop: HTTPError (404 or not), RequestException
\* and Exception each log and break
WalkCatches(outcome) ==
    outcome \in {"404", "http_error", "network_error", "unexpected"}

\* line 256: time.sleep follows a page that added URLs; every break and
\* every except clause leaves the loop before it
Sleeps(stop) == ~stop

\* the result of one iteration: [stop, urls, raised]
WalkStep(substack_url, outcome, links, all_post_urls) ==
    IF outcome # "ok"
    THEN [stop |-> TRUE, urls |-> all_post_urls,
          raised |-> ~WalkCatches(outcome)]
    ELSE IF WalkStops(substack_url, links, all_post_urls)
         THEN [stop |-> TRUE, urls |-> all_post_urls, raised |-> FALSE]
         ELSE [stop |-> FALSE,
               urls |-> all_post_urls \cup
                        (current_page_urls(substack_url, links) \ all_post_urls),
               raised |-> FALSE]

\* ------------------------------------------------------------------------
\* The download log file: what .download_log.json can hold
\* ------------------------------------------------------------------------

LogAbsent      == [kind |-> "absent", urls |-> {}]
LogNotJson     == [kind |-> "notjson", urls |-> {}]
\* a JSON value that is not an object, such as [] or "x"
LogJsonList    == [kind |-> "list", urls |-> {}]
\* an object without the key processed_urls
LogDictNoKey   == [kind |-> "dict_nokey", urls |-> {}]
\* {"processed_urls": null}
LogDictNull    == [kind |-> "dict_null", urls |-> {}]
\* {"processed_urls": [...]}
LogDict(urls)  == [kind |-> "dict", urls |-> urls]

\* load_download_log: [raised, urls]
load_download_log(content) ==
    CASE content.kind = "absent"     -> [raised |-> FALSE, urls |-> {}]
      [] content.kind = "notjson"    -> [raised |-> FALSE, urls |-> {}]
      [] content.kind = "list"       -> [raised |-> TRUE,  urls |-> {}]
      [] content.kind = "dict_nokey" -> [raised |-> FALSE, urls |-> {}]
      [] content.kind = "dict_null"  -> [raised |-> TRUE,  urls |-> {}]
      [] content.kind = "dict"       -> [raised |-> FALSE, urls |-> content.urls]

\* what writing the log file can do: written in full, open() fails and the
\* file is left as it was, or the write breaks off after open() truncated it
SaveOutcomes == {"ok", "open_fails", "write_breaks"}

\* save_to_download_log writing the new URL alone, not the whole set
save_to_download_log_new_url_only(content, url, processed_urls_set, outcome) ==
    LET added == processed_urls_set \cup {url}
    IN  CASE outcome = "ok" ->
               [raised |-> FALSE, set |-> added, file |-> LogDict({url})]
          [] outcome = "open_fails" ->
               [raised |-> TRUE, set |-> added, file |-> content]
          [] outcome = "write_breaks" ->
               [raised |-> TRUE, set |-> added, file |-> LogNotJson]

\* save_to_download_log: the in-memory set is updated first, then the file
\* is rewritten in full; [raised, set, file]
save_to_download_log(content, url, processed_urls_set, outcome) ==
    LET added == processed_urls_set \cup {url}
    IN  CASE outcome = "ok" ->
               [raised |-> FALSE, set |-> added, file |-> LogDict(added)]
          [] outcome = "open_fails" ->
               [raised |-> TRUE, set |-> added, file |-> content]
          [] outcome = "write_breaks" ->
               [raised |-> TRUE, set |-> added, file |-> LogNotJson]

\* ------------------------------------------------------------------------
\* Python values: None, strings (sequences of tokens), objects and lists
\* ------------------------------------------------------------------------

None        == [t |-> "none"]
Str(s)      == [t |-> "str", s |-> s]
IsStr(v)    == v.t = "str"
\* Python truthiness of None, of a string, of a list and of a dict with a key
Truthy(v)   ==
    CASE v.t = "str"  -> v.s # <<>>
      [] v.t = "list" -> v.items # <<>>
      [] v.t = "dict" -> TRUE
      [] OTHER        -> FALSE

\* s.split(sep): the pieces between the separators, as a sequence
RECURSIVE Split(_, _)
Split(s, sep) ==
    LET i == FirstIndex(s, sep)
    IN  IF i > Len(s) THEN <<s>>
        ELSE <<SubSeq(s, 1, i - 1)>> \o Split(SubSeq(s, i + 1, Len(s)), sep)

\* s.strip(): leading and trailing blanks removed
RECURSIVE Strip(_)
Strip(s) ==
    IF s = <<>> THEN s
    ELSE IF Head(s) = " " THEN Strip(Tail(s))
    ELSE IF s[Len(s)] = " " THEN Strip(SubSeq(s, 1, Len(s) - 1))
    ELSE s

\* [f(x) for x in xs if p(x)] for the two comprehensions on keywords
RECURSIVE StrippedNonEmpty(_)
StrippedNonEmpty(pieces) ==
    IF pieces = <<>> THEN <<>>
    ELSE LET x == Strip(Head(pieces))
         IN  (IF x # <<>> THEN <<Str(x)>> ELSE <<>>)
             \o StrippedNonEmpty(Tail(pieces))

RECURSIVE NonBlankStrings(_)
NonBlankStrings(items) ==
    IF items = <<>> THEN <<>>
    ELSE LET x == Head(items)
         IN  (IF IsStr(x) /\ Strip(x.s) # <<>> THEN <<x>> ELSE <<>>)
             \o NonBlankStrings(Tail(items))

\* ------------------------------------------------------------------------
\* Dates: "2023-01-01T12:00:00Z" is <<"2023","-","01","-","01","T","12:00:00Z">>
\* ------------------------------------------------------------------------

IsIsoDate(s) ==
    /\ Len(s) = 5
    /\ s[2] = "-" /\ s[4] = "-"
    /\ \A i \in {1, 3, 5} : s[i] \notin {"-", "T", " ", ","}

\* datetime.fromisoformat accepts a date with or without a time part
IsIsoDateTime(s) ==
    \/ IsIsoDate(s)
    \/ /\ Len(s) = 7 /\ s[6] = "T" /\ IsIsoDate(SubSeq(s, 1, 5))

\* dt.strftime('%Y-%m-%d') of a parsed ISO date or datetime
IsoDay(s) == SubSeq(s, 1, 5)

\* "Thursday, October 26, 2023" is <<"Thursday", ",", " ", "October", " ",
\* "26", ",", " ", "2023">>; strptime('%A, %B %d, %Y')
IsLongDate(s) ==
    /\ Len(s) = 9
    /\ s[2] = "," /\ s[3] = " " /\ s[5] = " " /\ s[7] = "," /\ s[8] = " "

MonthNumber(m) == IF m = "October" THEN "10" ELSE "01"
LongDay(s) == <<s[9], "-", MonthNumber(s[4]), "-", s[6]>>

\* ------------------------------------------------------------------------
\* A post page, as far as extract_metadata_from_post and readability read
\* it: the first <script type="application/ld+json">, the meta tags and the
\* title readability finds.
\* ------------------------------------------------------------------------

Dict(name)     == [t |-> "dict", name |-> name]
List(items)    == [t |-> "list", items |-> items]

\* a JSON object of the structured-data block; empty is {}
Obj(type, headline, author, datePublished, keywords) ==
    [empty |-> FALSE, type |-> type, headline |-> headline, author |-> author,
     datePublished |-> datePublished, keywords |-> keywords]
EmptyObj ==
    [empty |-> TRUE, type |-> "", headline |-> None, author |-> None,
     datePublished |-> None, keywords |-> None]

LdAbsent       == [k |-> "absent"]
LdMalformed    == [k |-> "malformed"]
\* <script type="application/ld+json"></script>: its .string is None
LdNoString     == [k |-> "nostring"]
LdScalar       == [k |-> "scalar"]
LdDict(obj)    == [k |-> "dict", obj |-> obj]
LdList(items)  == [k |-> "list", items |-> items]

PostHtml(ld, meta_author, meta_date, meta_tags, doc_title) ==
    [ld |-> ld, meta_author |-> meta_author, meta_date |-> meta_date,
     meta_tags |-> meta_tags, doc_title |-> doc_title]

\* ------------------------------------------------------------------------
\* extract_metadata_from_post
\* ------------------------------------------------------------------------

\* line 138: what json.loads(json_ld_script.string) raises
LdError(ld) ==
    CASE ld.k = "malformed" -> "JSONDecodeError"
      [] ld.k = "nostring"  -> "TypeError"
      [] OTHER              -> "none"

\* lines 169-172: except json.JSONDecodeError, then except Exception
LdCatches_decode_error_only(err) == err = "JSONDecodeError"

LdCatches(err) == err \in {"JSONDecodeError", "TypeError"}

\* an exception of the structured-data step that leaves the function
ExtractRaises(post_html) ==
    LdError(post_html.ld) # "none" /\ ~LdCatches(LdError(post_html.ld))

\* lines 140-152: the object the fields are read from
IsArticle(item) ==
    item.k = "dict" /\ item.obj.type \in {"NewsArticle", "Article"}

json_data(ld) ==
    CASE ld.k = "dict" -> ld.obj
      [] ld.k = "list" ->
           IF \E i \in 1..Len(ld.items) : IsArticle(ld.items[i])
           THEN ld.items[CHOOSE i \in 1..Len(ld.items) :
                           /\ IsArticle(ld.items[i])
                           /\ \A j \in 1..(i-1) : ~IsArticle(ld.items[j])].obj
           ELSE IF Len(ld.items) > 0 /\ ld.items[1].k = "dict"
                THEN ld.items[1].obj
                ELSE EmptyObj
      [] OTHER -> EmptyObj

\* lines 157-161
AuthorName(author_data) ==
    CASE author_data.t = "dict" -> author_data.name
      [] author_data.t = "list" ->
           IF Len(author_data.items) > 0 /\ author_data.items[1].t = "dict"
           THEN author_data.items[1].name
           ELSE None
      [] OTHER -> None

\* lines 164-168
KeywordTags(keywords) ==
    CASE keywords.t = "str"  -> StrippedNonEmpty(Split(keywords.s, ","))
      [] keywords.t = "list" -> NonBlankStrings(keywords.items)
      [] OTHER -> <<>>

\* line 163: the value of datePublished as the block gives it
LdPublishedDate(obj) == obj.datePublished

\* lines 136-172: the metadata after the structured-data step
FromJsonLd(ld, post_url) ==
    LET obj == json_data(ld)
    IN  IF ld.k = "absent" \/ LdError(ld) # "none" \/ obj.empty
        THEN [title |-> None, author |-> None, published_date |-> None,
              tags |-> <<>>, url |-> post_url]
        ELSE [title |-> obj.headline, author |-> AuthorName(obj.author),
              published_date |-> LdPublishedDate(obj),
              tags |-> KeywordTags(obj.keywords), url |-> post_url]

\* lines 186-197: the meta date, normalized when it parses
NormalizedMetaDate(content) ==
    IF IsIsoDateTime(content.s) THEN Str(IsoDay(content.s))
    ELSE IF IsLongDate(content.s) THEN Str(LongDay(content.s))
    ELSE content

\* [x for x in xs if x]
RECURSIVE TruthyOnly(_)
TruthyOnly(xs) ==
    IF xs = <<>> THEN <<>>
    ELSE (IF Truthy(Head(xs)) THEN <<Head(xs)>> ELSE <<>>) \o TruthyOnly(Tail(xs))

\* the fallbacks consulted only when the structured-data step gave nothing
extract_metadata_from_post_fallback_as_a_whole(post_html, post_url) ==
    LET m == FromJsonLd(post_html.ld, post_url)
        bare == ~Truthy(m.author) /\ ~Truthy(m.published_date) /\ m.tags = <<>>
        author == IF bare /\ Truthy(post_html.meta_author)
                  THEN post_html.meta_author ELSE m.author
        published_date ==
                  IF bare /\ Truthy(post_html.meta_date)
                  THEN NormalizedMetaDate(post_html.meta_date)
                  ELSE m.published_date
        tags   == IF bare /\ post_html.meta_tags # <<>>
                  THEN TruthyOnly(post_html.meta_tags) ELSE m.tags
    IN  [title |-> m.title, author |-> author,
         published_date |-> published_date,
         tags |-> TruthyOnly(tags), url |-> post_url]

extract_metadata_from_post(post_html, post_url) ==
    LET m == FromJsonLd(post_html.ld, post_url)
        author == IF ~Truthy(m.author) /\ Truthy(post_html.meta_author)
                  THEN post_html.meta_author ELSE m.author
        published_date ==
                  IF ~Truthy(m.published_date) /\ Truthy(post_html.meta_date)
                  THEN NormalizedMetaDate(post_html.meta_date)
                  ELSE m.published_date
        tags   == IF m.tags = <<>> /\ post_html.meta_tags # <<>>
                  THEN TruthyOnly(post_html.meta_tags) ELSE m.tags
    IN  [title |-> m.title, author |-> author,
         published_date |-> published_date,
         tags |-> TruthyOnly(tags), url |-> post_url]

\* ------------------------------------------------------------------------
\* process_single_post: title, date prefix and file name (lines 578-618).
\* Titles are sequences of characters.
\* ------------------------------------------------------------------------

UntitledPost == Str(<<"U", "n", "t", "i", "t", "l", "e", "d">>)

\* lines 582-591
ResolveTitle_content_on_equal_length(meta_title, content_title) ==
    LET t == IF ~Truthy(meta_title) THEN content_title
             ELSE IF ~Truthy(content_title) THEN meta_title
             ELSE IF Len(content_title.s) >= Len(meta_title.s) THEN content_title
             ELSE meta_title
    IN  IF ~Truthy(t) THEN UntitledPost ELSE t

ResolveTitle(meta_title, content_title) ==
    LET t == IF ~Truthy(meta_title) THEN content_title
             ELSE IF ~Truthy(content_title) THEN meta_title
             ELSE IF Len(content_title.s) > Len(meta_title.s) THEN content_title
             ELSE meta_title
    IN  IF ~Truthy(t) THEN UntitledPost ELSE t

\* the quotation mark, a character json.dumps escapes and slugify drops
Quote == "\""

LowerChar(c) ==
    CASE c = "A" -> "a" [] c = "B" -> "b" [] c = "C" -> "c" [] c = "U" -> "u"
      [] c \in {" ", Quote} -> "-" [] OTHER -> c

\* runs of hyphens become one hyphen, leading hyphens go
RECURSIVE CollapseHyphens(_, _)
CollapseHyphens(chars, afterHyphen) ==
    IF chars = <<>> THEN <<>>
    ELSE IF Head(chars) = "-"
         THEN (IF afterHyphen THEN <<>> ELSE <<"-">>)
              \o CollapseHyphens(Tail(chars), TRUE)
         ELSE <<Head(chars)>> \o CollapseHyphens(Tail(chars), FALSE)

\* slugify: lower case, every run of blanks and punctuation one hyphen,
\* no hyphen at either end
slugify(chars) ==
    LET s == CollapseHyphens([i \in 1..Len(chars) |-> LowerChar(chars[i])],
                             TRUE)
    IN  IF s # <<>> /\ s[Len(s)] = "-" THEN SubSeq(s, 1, Len(s) - 1) ELSE s

\* s.replace('-', '')
RECURSIVE WithoutHyphens(_)
WithoutHyphens(s) ==
    IF s = <<>> THEN <<>>
    ELSE (IF Head(s) = "-" THEN <<>> ELSE <<Head(s)>>) \o WithoutHyphens(Tail(s))

Today == <<"today">>

\* FormattedDatePrefix without split('T'): the whole string is parsed
FormattedDatePrefix_whole_string(published_date) ==
    IF published_date.t # "str"
    THEN [raised |-> TRUE, prefix |-> <<>>]
    ELSE IF IsIsoDate(published_date.s)
         THEN [raised |-> FALSE, prefix |-> WithoutHyphens(published_date.s)]
         ELSE IF Len(Split(published_date.s, "-")) = 3
              THEN [raised |-> FALSE,
                    prefix |-> WithoutHyphens(published_date.s)]
              ELSE [raised |-> FALSE, prefix |-> Today]

\* lines 603-612: [raised, prefix]; None has no split()
FormattedDatePrefix(published_date) ==
    IF published_date.t # "str"
    THEN [raised |-> TRUE, prefix |-> <<>>]
    ELSE LET day == Split(published_date.s, "T")[1]
         IN  IF IsIsoDate(day)
             THEN [raised |-> FALSE, prefix |-> WithoutHyphens(day)]
             ELSE IF Len(Split(published_date.s, "-")) = 3
                  THEN [raised |-> FALSE,
                        prefix |-> WithoutHyphens(published_date.s)]
                  ELSE [raised |-> FALSE, prefix |-> Today]

\* the posts of a site, by the last segment of the URL
Iso(y, m, d) == <<y, "-", m, "-", d>>

PostId(url) == url[4]

PostPage(id) ==
    CASE id = "a" ->
           PostHtml(LdDict(Obj("NewsArticle", Str(<<"A">>), Dict(Str(<<"X">>)),
                               Str(Iso("2023", "01", "01") \o <<"T", "12:00:00Z">>),
                               Str(<<"x", ",", " ", "y">>))),
                    None, None, <<>>, Str(<<"A">>))
      [] id = "b" ->
           PostHtml(LdAbsent, Str(<<"Y">>),
                    Str(Iso("2023", "01", "02") \o <<"T", "12:00:00.000Z">>),
                    <<>>, Str(<<"B", " ", Quote, "b", Quote>>))
      [] id = "t" ->
           PostHtml(LdDict(Obj("NewsArticle", Str(<<"a">>), Dict(Str(<<"X">>)),
                               Str(Iso("2023", "01", "01") \o <<"T", "18:00:00Z">>),
                               None)),
                    None, None, <<>>, None)
      [] OTHER ->
           PostHtml(LdMalformed, None, None, <<>>, Str(<<"C">>))

\* lines 578-614 for a fetched page: [raised, metadata, stem]
PreparePost(url) ==
    LET html  == PostPage(PostId(url))
        meta  == extract_metadata_from_post(html, url)
        title == ResolveTitle(meta.title, html.doc_title)
        date  == FormattedDatePrefix(meta.published_date)
    IN  [raised   |-> ExtractRaises(html) \/ date.raised,
         metadata |-> [meta EXCEPT !.title = title],
         stem     |-> [date |-> date.prefix, slug |-> slugify(title.s)]]

\* os.path.join(output_dir, f"{formatted_date_prefix}_{clean_slug}.{fmt}")
FilePath(dir, stem, fmt) == [dir |-> dir, stem |-> stem, ext |-> fmt]

TextFormats      == {"md", "html", "json"}
PandocFormats    == {"pdf", "epub"}

\* json.dumps of a string: the quotation mark and the backslash are escaped,
\* the whole is put between quotation marks
RECURSIVE JsonEscape(_)
JsonEscape(chars) ==
    IF chars = <<>> THEN <<>>
    ELSE (IF Head(chars) \in {Quote, "\\"} THEN <<"\\", Head(chars)>>
          ELSE <<Head(chars)>>) \o JsonEscape(Tail(chars))

json_dumps(chars) == <<Quote>> \o JsonEscape(chars) \o <<Quote>>

\* lines 621-634 and, for pdf and epub, what pandoc writes: the text of the
\* output file.  The front matter, the body and the other JSON members are
\* one token each; the title is spelled out as the code puts it there.
final_content(fmt, meta) ==
    CASE fmt = "md" ->
           <<"---", "frontmatter", "---", "#", " ">> \o meta.title.s
               \o <<"body">>
      [] fmt = "html" ->
           <<"<!--", "frontmatter", "-->", "<h1>">> \o meta.title.s
               \o <<"</h1>", "body">>
      [] fmt = "json" ->
           <<"{", "metadata", ":", "{", "title", ":">>
               \o json_dumps(meta.title.s)
               \o <<"}", "content_html", ":", "body", "}">>
      [] OTHER -> <<"pandoc", fmt>>

\* ------------------------------------------------------------------------
\* download_images_and_rewrite_paths (lines 274-355).  An img tag is its src
\* attribute: missing, a data: URI, a remote URL (the basename of its path
\* split into base and extension, and the extension the content type of the
\* response stands for), or, once rewritten, a local path.
\* ------------------------------------------------------------------------

NoSrc                    == [k |-> "none"]
DataUri                  == [k |-> "data"]
Remote(base, ext, ctype) == [k |-> "remote", base |-> base, ext |-> ext,
                             ctype |-> ctype]
\* os.path.join(assets_dir_name_param, post_slug, local_image_filename)
LocalSrc(post_slug, name) == [k |-> "local", slug |-> post_slug, name |-> name]

\* the img tags of the fragment doc.summary() gives for a post
PostImages(id) ==
    IF id = "a"
    THEN <<Remote(<<"a">>, ".png", ""), DataUri, Remote(<<"A">>, ".png", ".gif"),
           NoSrc, Remote(<<>>, "", "")>>
    ELSE IF id = "t"
    THEN <<Remote(<<"a">>, ".png", "")>>
    ELSE <<>>

\* what handling one remote image can do: saved, requests.get or
\* raise_for_status raises, open() raises, or the write breaks off and
\* leaves a partial file
ImageOutcomes == {"ok", "request_fails", "open_fails", "write_breaks"}

\* lines 315-326: base name and extension derived for the tag at idx
ImageBase(img_tags, idx) ==
    IF img_tags[idx].base # <<>>
    THEN slugify(img_tags[idx].base)
    ELSE <<"image_", ToString(FirstIndex(img_tags, img_tags[idx]) - 1)>>

ImageExt(img_tag) ==
    IF img_tag.ext # "" THEN img_tag.ext
    ELSE IF img_tag.ctype # "" THEN img_tag.ctype
    ELSE ".jpg"

\* f"{safe_filename_base}{image_ext}" for n = 0,
\* f"{safe_filename_base}_{counter}{image_ext}" for n = counter
ImageFile(base, n, ext) == [base |-> base, n |-> n, ext |-> ext]
NoFile == ImageFile(<<>>, 0, "")

\* the name without the loop on os.path.exists
local_image_filename_without_counter(base, ext, existing) ==
    ImageFile(base, 0, ext)

\* lines 327-334: the first name of the series that no file of the
\* directory has
local_image_filename(base, ext, existing) ==
    LET n == CHOOSE k \in 0..Cardinality(existing) :
                 /\ ImageFile(base, k, ext) \notin existing
                 /\ \A j \in 0..(k - 1) : ImageFile(base, j, ext) \in existing
    IN  ImageFile(base, n, ext)

\* ImageCatches without the last clause, except Exception
ImageCatches_requests_only(outcome) == outcome = "request_fails"

\* lines 350-353: RequestException and Exception are caught and logged
ImageCatches(outcome) ==
    outcome \in {"request_fails", "open_fails", "write_breaks"}

\* one iteration of the loop over the img tags (lines 299-353):
\*   [src, file, whole, raised]: the src of the tag afterwards, the file
\*   created in the directory (NoFile if none), whether it was written in
\*   full, and whether an exception leaves the function
HandleImage(img_tags, idx, post_slug, existing, outcome) ==
    LET tag  == img_tags[idx]
        name == local_image_filename(ImageBase(img_tags, idx), ImageExt(tag),
                                     existing)
    IN  IF tag.k # "remote"
        THEN [src |-> tag, file |-> NoFile, whole |-> FALSE, raised |-> FALSE]
        ELSE CASE outcome = "ok" ->
                    [src |-> LocalSrc(post_slug, name), file |-> name,
                     whole |-> TRUE, raised |-> FALSE]
               [] outcome = "write_breaks" ->
                    [src |-> tag, file |-> name, whole |-> FALSE,
                     raised |-> ~ImageCatches(outcome)]
               [] OTHER ->
                    [src |-> tag, file |-> NoFile, whole |-> FALSE,
                     raised |-> ~ImageCatches(outcome)]

\* line 595: the directory of the post's images
post_assets_slug(title, url) ==
    IF title # UntitledPost THEN slugify(title.s) ELSE <<PostId(url)>>

\* what rendering one format can do
\*   text formats: the file is written, or open()/write() raises
\*   pdf, epub:    pandoc writes the file, or the temporary document cannot
\*                 be written, or pandoc fails
FormatOutcomes(fmt) ==
    IF fmt \in TextFormats THEN {"ok", "write_fails"}
    ELSE IF fmt \in PandocFormats THEN {"ok", "temp_write_fails", "convert_fails"}
    ELSE {"unknown"}

\* RenderFormat with the pandoc failure logged and raised again, not
\* followed by continue
RenderFormat_pandoc_failure_raises(fmt, outcome) ==
    IF fmt \in TextFormats
    THEN [written |-> outcome = "ok", logged |-> FALSE,
          raised |-> outcome # "ok"]
    ELSE IF fmt \in PandocFormats
    THEN [written |-> outcome = "ok", logged |-> outcome # "ok",
          raised |-> outcome # "ok"]
    ELSE [written |-> FALSE, logged |-> TRUE, raised |-> FALSE]

\* one iteration of the format loop (lines 616-726):
\*   [written, logged, raised]: the output file exists afterwards, a failure
\*   of this format was logged and the loop continues, or the exception
\*   leaves the loop
RenderFormat(fmt, outcome) ==
    IF fmt \in TextFormats
    THEN [written |-> outcome = "ok", logged |-> FALSE,
          raised |-> outcome # "ok"]
    ELSE IF fmt \in PandocFormats
    THEN [written |-> outcome = "ok", logged |-> outcome # "ok",
          raised |-> FALSE]
    ELSE [written |-> FALSE, logged |-> TRUE, raised |-> FALSE]

\* lines 728-732: after the loop the post is recorded, whatever the loop
\* logged
RecordsPost(incremental_flag, loggedFormats) == incremental_flag

\* os.path.join(output_dir, f"{formatted_date_prefix}_{clean_slug}_temp.html")
temp_html_path(dir, stem) == [dir |-> dir, stem |-> stem, ext |-> "_temp.html"]

\* lines 653-665: the document handed to pandoc
full_html_for_pandoc(meta) ==
    <<"<html>", "<title>">> \o meta.title.s \o <<"</title>", "<h1>">>
        \o meta.title.s \o <<"</h1>", "body", "</html>">>

\* RemovesTemp with the cleanup of the except branch left out
RemovesTemp_on_success_only(outcome) == outcome = "ok"

\* the temporary document is removed if it exists: lines 706-707 after the
\* conversion, lines 715-716 in the except branch
RemovesTemp(outcome) == outcome \in {"ok", "temp_write_fails", "convert_fails"}

\* ------------------------------------------------------------------------
\* State
\* ------------------------------------------------------------------------

VARIABLES
    formats,        \* formats_to_save
    download_images,\* args.download_images
    incremental,    \* args.incremental
    sources,        \* args.substack_urls: hosts, "" for an empty entry
    site,           \* the archive pages every host serves, by page number
    logFile,        \* .download_log.json of each output directory
    files,          \* the output files on disk
    contents,       \* the text of each output file
    assets,         \* the image files on disk: [dir, name, whole]
    run,            \* how many times cli was started
    pc,             \* where cli is
    srcIdx,         \* substack_idx + 1
    processed,      \* processed_urls_for_this_substack
    page,           \* get_all_post_urls: page
    all_post_urls,  \* get_all_post_urls: all_post_urls, then cli's list
    todo,           \* the URLs of the list the for loop has not reached
    cur,            \* process_single_post: url
    post_html,      \* process_single_post: the page of the post
    metadata,       \* process_single_post: metadata
    stem,           \* process_single_post: date prefix and slug
    fmtIdx,         \* process_single_post: position in formats_to_save
    images_found,   \* download_images_and_rewrite_paths: the img tags
    imgIdx,         \* download_images_and_rewrite_paths: position in them
    imgOutcome,     \* history: what handling each img tag of the post did
    imgFile,        \* history: the file each img tag of the post was saved to
    successful, skipped, failed,   \* the three counters of the source
    pagesReq,       \* history: archive pages requested for this source
    walkEnd,        \* history: how the walk of this source ended
    fetched,        \* history: post URLs requested for this source
    written,        \* history: <<url, i>>: format i of url was written
    loggedFmt,      \* history: <<url, i>>: a failure of format i was logged
    raisedFmt,      \* history: <<url, i>>: format i raised out of the loop
    troubled,       \* history: URLs a step of whose processing failed
    outcomeOf,      \* history: <<url, "downloaded" | "skipped" | "failed">>
    looped,         \* history: URLs whose format loop ran to its end
    prevRun,        \* history: how the previous run of cli ended
    summaries,      \* history: the sources whose summary line was logged
    sinceSleep      \* history: the kinds of fetch made since the last sleep

cfgVars  == <<formats, download_images, incremental, sources, site>>
diskVars == <<logFile, files, contents, assets>>
imgVars  == <<images_found, imgIdx, imgOutcome, imgFile>>
cliVars  == <<pc, srcIdx, processed, page, all_post_urls, todo, cur, stem,
              fmtIdx, successful, skipped, failed>>
postVars == <<post_html, metadata>>
histVars == <<pagesReq, walkEnd, fetched, written, loggedFmt, raisedFmt, troubled,
              outcomeOf, looped, prevRun, summaries, sinceSleep>>
vars     == <<formats, download_images, incremental, sources, site, logFile,
              files, contents, assets, images_found, imgIdx, imgOutcome, imgFile,
              run,
              post_html, metadata,
              pc, srcIdx, processed, page, all_post_urls, todo, cur, stem,
              fmtIdx, successful, skipped, failed,
              pagesReq, walkEnd, fetched, written, loggedFmt, raisedFmt, troubled,
              outcomeOf, looped, prevRun, summaries, sinceSleep>>

Dirs == {"root"} \cup Hosts

\* lines 771-779: the output root for one source, a directory named after
\* the host when several are configured
OutputDir(srcs, i) == IF Len(srcs) > 1 THEN srcs[i] ELSE "root"

SitePage(p) == IF p \in DOMAIN site THEN site[p] ELSE "empty"

Url(h, id) == <<Scheme, h, "/p/", id>>

NoPage == PostHtml(LdAbsent, None, None, <<>>, None)
NoMeta == [title |-> None, author |-> None, published_date |-> None,
           tags |-> <<>>, url |-> <<>>]
NoRun  == [ended |-> "none", failed |-> 0, walkEnd |-> "none",
           log |-> LogAbsent]

\* ------------------------------------------------------------------------
\* Initial states
\* ------------------------------------------------------------------------

FormatLists == {<<"md", "json">>, <<"pdf", "md">>, <<"xyz", "html", "epub">>}
SourceLists == {<<"h1">>, <<"h1", "h2">>, <<"", "h1">>}
MainPages   == {"A", "AB", "C"}
LogChoices  == {LogAbsent, LogNotJson, LogJsonList, LogDictNoKey, LogDictNull,
                LogDict({}), LogDict({Url("h1", "a")})}

InitStart(at) ==
    /\ files = {}
    /\ contents = <<>>
    /\ assets = {}
    /\ images_found = <<>>
    /\ imgIdx = 1
    /\ imgOutcome = <<>>
    /\ imgFile = <<>>
    /\ run = 1
    /\ pc = at
    /\ srcIdx = 1
    /\ processed = {}
    /\ page = 1
    /\ all_post_urls = {}
    /\ todo = {}
    /\ cur = <<>>
    /\ post_html = NoPage
    /\ metadata = NoMeta
    /\ stem = [date |-> <<>>, slug |-> <<>>]
    /\ fmtIdx = 1
    /\ successful = 0 /\ skipped = 0 /\ failed = 0
    /\ pagesReq = <<>>
    /\ walkEnd = "none"
    /\ fetched = {}
    /\ written = {}
    /\ loggedFmt = {}
    /\ raisedFmt = {}
    /\ troubled = {}
    /\ outcomeOf = {}
    /\ looped = {}
    /\ prevRun = NoRun
    /\ summaries = <<>>
    /\ sinceSleep = {}

Init ==
    /\ formats \in FormatLists
    /\ download_images = FALSE
    /\ incremental \in BOOLEAN
    /\ sources \in SourceLists
    /\ site \in [1..MaxPage -> IF Len(sources) > 1 /\ "" \notin Range(sources)
                                THEN {"A"} ELSE MainPages]
    /\ \E c \in (IF incremental THEN LogChoices ELSE {LogAbsent}) :
           logFile = [d \in Dirs |-> c]
    /\ InitStart("source")

\* ------------------------------------------------------------------------
\* cli: the loop over the sources (lines 761-838)
\* ------------------------------------------------------------------------

\* the for loop over args.substack_urls is exhausted (line 838)
cli_done ==
    /\ pc = "source"
    /\ srcIdx > Len(sources)
    /\ pc' = "done"
    /\ UNCHANGED <<cfgVars, imgVars, postVars, diskVars, run, srcIdx, processed, page,
                   all_post_urls, todo, cur, stem, fmtIdx, successful,
                   skipped, failed, histVars>>

\* lines 762-764: an empty entry is skipped
cli_skip_empty ==
    /\ pc = "source"
    /\ srcIdx <= Len(sources)
    /\ sources[srcIdx] = ""
    /\ srcIdx' = srcIdx + 1
    /\ UNCHANGED <<cfgVars, imgVars, postVars, diskVars, run, pc, processed, page,
                   all_post_urls, todo, cur, stem, fmtIdx, successful,
                   skipped, failed, histVars>>

\* lines 766-796: the output directory, and the log when incremental;
\* load_download_log is called outside any try
cli_begin_source ==
    /\ pc = "source"
    /\ srcIdx <= Len(sources)
    /\ sources[srcIdx] # ""
    /\ LET loaded == IF incremental
                     THEN load_download_log(logFile[OutputDir(sources, srcIdx)])
                     ELSE [raised |-> FALSE, urls |-> {}]
       IN  /\ processed' = loaded.urls
           /\ pc' = IF loaded.raised THEN "crashed" ELSE "walk"
    /\ page' = 1
    /\ all_post_urls' = {}
    /\ pagesReq' = <<>>
    /\ walkEnd' = "none"
    /\ fetched' = {} /\ written' = {} /\ loggedFmt' = {} /\ troubled' = {}
    /\ raisedFmt' = {}
    /\ outcomeOf' = {} /\ looped' = {}
    /\ UNCHANGED <<cfgVars, imgVars, postVars, diskVars, run, srcIdx, todo, cur, stem, fmtIdx,
                   successful, skipped, failed, prevRun, summaries, sinceSleep>>

\* get_all_post_urls, one iteration of the while loop (lines 218-269)
walk_page ==
    /\ pc = "walk"
    /\ \E outcome \in FetchOutcomes :
         LET h == sources[srcIdx]
             r == WalkStep(NormalizedRoot(h), outcome,
                           PageLinks(SitePage(page), h), all_post_urls)
         IN  /\ pagesReq' = Append(pagesReq, page)
             /\ all_post_urls' = r.urls
             /\ page' = IF r.stop THEN page ELSE page + 1
             /\ pc' = IF r.raised THEN "crashed"
                      ELSE IF r.stop THEN "walked" ELSE "walk"
             /\ walkEnd' = IF r.stop THEN outcome ELSE "none"
             /\ sinceSleep' = IF Sleeps(r.stop) THEN {}
                               ELSE sinceSleep \cup {"archive"}
    /\ UNCHANGED <<cfgVars, imgVars, postVars, diskVars, run, srcIdx, processed, todo, cur, stem,
                   fmtIdx, successful, skipped, failed, fetched, written,
                   loggedFmt, raisedFmt, troubled, outcomeOf, looped, prevRun,
                   summaries>>

\* lines 798-807: nothing found, on to the next source; else the counters
\* start at zero
cli_discovered ==
    /\ pc = "walked"
    /\ IF all_post_urls = {}
       THEN /\ srcIdx' = srcIdx + 1
            /\ pc' = "source"
            /\ UNCHANGED <<todo, successful, skipped, failed>>
       ELSE /\ todo' = all_post_urls
            /\ successful' = 0 /\ skipped' = 0 /\ failed' = 0
            /\ pc' = "posts"
            /\ UNCHANGED srcIdx
    /\ UNCHANGED <<cfgVars, imgVars, postVars, diskVars, run, processed, page, all_post_urls,
                   cur, stem, fmtIdx, histVars>>

\* line 813: if args.incremental and url in processed_urls_for_this_substack
SkipsPost_without_log_lookup(incremental_flag, url, processed_urls_set) ==
    FALSE

SkipsPost(incremental_flag, url, processed_urls_set) ==
    incremental_flag /\ url \in processed_urls_set

\* lines 813-816: a URL of the loaded log is skipped
cli_skip_post ==
    /\ pc = "posts"
    /\ \E url \in todo :
         /\ SkipsPost(incremental, url, processed)
         /\ skipped' = skipped + 1
         /\ todo' = todo \ {url}
         /\ outcomeOf' = outcomeOf \cup {<<url, "skipped">>}
    /\ UNCHANGED <<cfgVars, imgVars, postVars, diskVars, run, pc, srcIdx, processed, page,
                   all_post_urls, cur, stem, fmtIdx, successful, failed,
                   pagesReq, walkEnd, fetched, written, loggedFmt, raisedFmt, troubled,
                   looped, prevRun, summaries, sinceSleep>>

\* lines 835-836: the summary of the source
cli_summary ==
    /\ pc = "posts"
    /\ todo = {}
    /\ srcIdx' = srcIdx + 1
    /\ pc' = "source"
    /\ summaries' = Append(summaries, srcIdx)
    /\ UNCHANGED <<cfgVars, imgVars, postVars, diskVars, run, processed, page, all_post_urls,
                   todo, cur, stem, fmtIdx, successful, skipped, failed,
                   pagesReq, walkEnd, fetched, written, loggedFmt, raisedFmt,
                   troubled, outcomeOf, looped, prevRun, sinceSleep>>

\* ------------------------------------------------------------------------
\* process_single_post (lines 559-738), called from the for loop of cli
\* (lines 818-833) with the counter updated on its return
\* ------------------------------------------------------------------------

\* what the request for a post page and the steps up to the format loop can
\* do: a page, a RequestException, or an exception of a later step
PostOutcomes == {"ok", "http_error", "network_error", "processing_error"}

\* the call returned False and the URL stays in the list, to be tried again
ReturnFalse_url_kept_for_retry(url) ==
    /\ failed' = failed + 1
    /\ todo' = todo
    /\ pc' = "posts"
    /\ outcomeOf' = outcomeOf \cup {<<url, "failed">>}
    /\ UNCHANGED <<successful, skipped>>

\* the call returned False: line 738, then lines 832-833
ReturnFalse(url) ==
    /\ failed' = failed + 1
    /\ todo' = todo \ {url}
    /\ pc' = "posts"
    /\ outcomeOf' = outcomeOf \cup {<<url, "failed">>}
    /\ UNCHANGED <<successful, skipped>>

\* the call returned True and no counter is touched
ReturnTrue_without_count(url) ==
    /\ todo' = todo \ {url}
    /\ pc' = "posts"
    /\ outcomeOf' = outcomeOf \cup {<<url, "downloaded">>}
    /\ UNCHANGED <<successful, failed, skipped>>

\* the call returned True: line 732, then lines 830-831
ReturnTrue(url) ==
    /\ successful' = successful + 1
    /\ todo' = todo \ {url}
    /\ pc' = "posts"
    /\ outcomeOf' = outcomeOf \cup {<<url, "downloaded">>}
    /\ UNCHANGED <<failed, skipped>>

\* lines 567-614: the request, the metadata, the title, the date prefix
psp_fetch ==
    /\ pc = "posts"
    /\ \E url \in todo :
         /\ ~SkipsPost(incremental, url, processed)
         /\ \E outcome \in PostOutcomes :
              LET prep == PreparePost(url)
              IN  /\ fetched' = fetched \cup {url}
                  /\ sinceSleep' = sinceSleep \cup {"post"}
                  /\ cur' = url
                  /\ post_html' = IF outcome = "ok" THEN PostPage(PostId(url))
                                  ELSE NoPage
                  /\ metadata' = IF outcome = "ok" THEN prep.metadata
                                 ELSE NoMeta
                  /\ IF outcome = "ok" /\ download_images
                     THEN /\ pc' = "images"
                          /\ images_found' = PostImages(PostId(url))
                          /\ imgIdx' = 1
                          /\ imgOutcome' = <<>>
                          /\ imgFile' = <<>>
                          /\ UNCHANGED <<todo, successful, skipped, failed,
                                         troubled, outcomeOf, fmtIdx, stem>>
                     ELSE IF outcome = "ok" /\ ~prep.raised
                     THEN /\ pc' = "formats"
                          /\ fmtIdx' = 1
                          /\ stem' = prep.stem
                          /\ UNCHANGED <<todo, successful, skipped, failed,
                                         troubled, outcomeOf, imgVars>>
                     ELSE /\ ReturnFalse(url)
                          /\ troubled' = troubled \cup {url}
                          /\ UNCHANGED <<fmtIdx, stem, imgVars>>
    /\ UNCHANGED <<cfgVars, diskVars, run, srcIdx, processed, page,
                   all_post_urls, pagesReq, walkEnd, written, loggedFmt,
                   raisedFmt, looped, prevRun, summaries>>

\* lines 599-601, download_images_and_rewrite_paths: one img tag of the
\* fragment (lines 299-353)
img_tag ==
    /\ pc = "images"
    /\ imgIdx <= Len(images_found)
    /\ \E outcome \in ImageOutcomes :
         LET slug == post_assets_slug(metadata.title, cur)
             here == {f.name : f \in {g \in assets : g.dir = slug}}
             r    == HandleImage(images_found, imgIdx, slug, here, outcome)
         IN  /\ images_found[imgIdx].k # "remote" => outcome = "ok"
             /\ images_found' = [images_found EXCEPT ![imgIdx] = r.src]
             /\ assets' = IF r.file = NoFile THEN assets
                           ELSE {g \in assets :
                                    g.dir # slug \/ g.name # r.file}
                                \cup {[dir |-> slug, name |-> r.file,
                                        whole |-> r.whole]}
             /\ imgFile' = Append(imgFile, r.file)
             /\ imgOutcome' = Append(imgOutcome,
                                     IF images_found[imgIdx].k = "remote"
                                     THEN outcome ELSE "skipped")
             /\ IF r.raised
                THEN /\ ReturnFalse(cur)
                     /\ troubled' = troubled \cup {cur}
                     /\ UNCHANGED imgIdx
                ELSE /\ imgIdx' = imgIdx + 1
                     /\ UNCHANGED <<pc, todo, successful, skipped, failed,
                                    outcomeOf, troubled>>
    /\ UNCHANGED <<cfgVars, postVars, logFile, files, contents, run, srcIdx,
                   processed, page, all_post_urls, cur, stem, fmtIdx,
                   pagesReq, walkEnd, fetched, written, loggedFmt, raisedFmt,
                   looped, prevRun, summaries, sinceSleep>>

\* line 355, the fragment is returned; then lines 603-614, the date prefix
\* and the slug of the file name
img_return ==
    /\ pc = "images"
    /\ imgIdx > Len(images_found)
    /\ LET prep == PreparePost(cur)
       IN  IF ~prep.raised
           THEN /\ pc' = "formats"
                /\ fmtIdx' = 1
                /\ stem' = prep.stem
                /\ UNCHANGED <<todo, successful, skipped, failed, troubled,
                               outcomeOf>>
           ELSE /\ ReturnFalse(cur)
                /\ troubled' = troubled \cup {cur}
                /\ UNCHANGED <<fmtIdx, stem>>
    /\ UNCHANGED <<cfgVars, imgVars, postVars, diskVars, run, srcIdx,
                   processed, page, all_post_urls, cur, pagesReq, walkEnd,
                   fetched, written, loggedFmt, raisedFmt, looped, prevRun, summaries, sinceSleep>>

\* the end of one iteration of the format loop (lines 616-726): the output
\* file if it was written, the temporary document if it is there and is not
\* removed, and the next format or the return of the call
FormatStep(fmt, outcome, temp_exists) ==
    LET r    == RenderFormat(fmt, outcome)
        out  == FilePath(OutputDir(sources, srcIdx), stem, fmt)
        temp == temp_html_path(OutputDir(sources, srcIdx), stem)
        kept == (files \cup (IF r.written THEN {out} ELSE {})
                       \cup (IF temp_exists THEN {temp} ELSE {}))
                  \ (IF RemovesTemp(outcome) THEN {temp} ELSE {})
    IN  /\ files' = kept
        /\ contents' = [f \in kept |->
                          IF f = out /\ r.written
                          THEN final_content(fmt, metadata)
                          ELSE IF f = temp THEN full_html_for_pandoc(metadata)
                          ELSE contents[f]]
        /\ written' = IF r.written THEN written \cup {<<cur, fmtIdx>>}
                      ELSE written
        /\ loggedFmt' = IF r.logged THEN loggedFmt \cup {<<cur, fmtIdx>>}
                        ELSE loggedFmt
        /\ raisedFmt' = IF r.raised THEN raisedFmt \cup {<<cur, fmtIdx>>}
                        ELSE raisedFmt
        /\ troubled' = IF r.written THEN troubled
                       ELSE troubled \cup {cur}
        /\ IF r.raised
           THEN /\ ReturnFalse(cur)
                /\ UNCHANGED fmtIdx
           ELSE /\ fmtIdx' = fmtIdx + 1
                /\ pc' = "formats"
                /\ UNCHANGED <<todo, successful, skipped, failed, outcomeOf>>

\* lines 616-726: one format of the list; for pdf and epub the iteration in
\* which the temporary document cannot be written (it may be left partly
\* written when the except branch is reached)
psp_format ==
    /\ pc = "formats"
    /\ fmtIdx <= Len(formats)
    /\ \E outcome \in FormatOutcomes(formats[fmtIdx]) :
         /\ formats[fmtIdx] \in PandocFormats => outcome = "temp_write_fails"
         /\ \E partial \in (IF formats[fmtIdx] \in PandocFormats
                             THEN BOOLEAN ELSE {FALSE}) :
                FormatStep(formats[fmtIdx], outcome, partial)
    /\ UNCHANGED <<cfgVars, imgVars, postVars, logFile, assets, run, srcIdx,
                   processed, page,
                   all_post_urls, cur, stem, pagesReq, walkEnd, fetched,
                   looped, prevRun, summaries, sinceSleep>>

\* lines 690-694, pdf and epub: the temporary document is written next to
\* the output file
psp_temp_html ==
    /\ pc = "formats"
    /\ fmtIdx <= Len(formats)
    /\ formats[fmtIdx] \in PandocFormats
    /\ LET temp == temp_html_path(OutputDir(sources, srcIdx), stem)
       IN  /\ files' = files \cup {temp}
           /\ contents' = [f \in files \cup {temp} |->
                             IF f = temp THEN full_html_for_pandoc(metadata)
                             ELSE contents[f]]
    /\ pc' = "pandoc"
    /\ UNCHANGED <<cfgVars, imgVars, postVars, logFile, assets, run, srcIdx,
                   processed, page, all_post_urls, todo, cur, stem, fmtIdx,
                   successful, skipped, failed, histVars>>

\* lines 698-717, pdf and epub: pandoc converts the temporary document or
\* fails, and the temporary document is removed
psp_convert ==
    /\ pc = "pandoc"
    /\ \E outcome \in FormatOutcomes(formats[fmtIdx]) \ {"temp_write_fails"} :
         FormatStep(formats[fmtIdx], outcome, TRUE)
    /\ UNCHANGED <<cfgVars, imgVars, postVars, logFile, assets, run, srcIdx,
                   processed, page,
                   all_post_urls, cur, stem, pagesReq, walkEnd, fetched,
                   looped, prevRun, summaries, sinceSleep>>

\* lines 728-732: the sleep, the log, return True
psp_finish ==
    /\ pc = "formats"
    /\ fmtIdx > Len(formats)
    /\ looped' = looped \cup {cur}
    /\ sinceSleep' = {}
    /\ IF RecordsPost(incremental, {p \in loggedFmt : p[1] = cur})
       THEN \E outcome \in SaveOutcomes :
              LET dir == OutputDir(sources, srcIdx)
                  r   == save_to_download_log(logFile[dir], cur, processed,
                                              outcome)
              IN  /\ processed' = r.set
                  /\ logFile' = [logFile EXCEPT ![dir] = r.file]
                  /\ IF r.raised
                     THEN /\ ReturnFalse(cur)
                          /\ troubled' = troubled \cup {cur}
                     ELSE /\ ReturnTrue(cur)
                          /\ UNCHANGED troubled
       ELSE /\ ReturnTrue(cur)
            /\ UNCHANGED <<processed, logFile, troubled>>
    /\ UNCHANGED <<cfgVars, imgVars, postVars, files, contents, assets, run,
                   srcIdx, page,
                   all_post_urls, cur,
                   stem, fmtIdx, pagesReq, walkEnd, fetched, written,
                   loggedFmt, raisedFmt, prevRun, summaries>>

\* ------------------------------------------------------------------------
\* One run of cli
\* ------------------------------------------------------------------------

Next ==
    \/ cli_done
    \/ cli_skip_empty
    \/ cli_begin_source
    \/ walk_page
    \/ cli_discovered
    \/ cli_skip_post
    \/ psp_fetch
    \/ psp_format
    \/ psp_temp_html
    \/ psp_convert
    \/ psp_finish
    \/ cli_summary

Spec == Init /\ [][Next]_vars

\* the process keeps running while a step of it can be taken
SpecFair == Spec /\ WF_vars(Next)

\* ------------------------------------------------------------------------
\* cli run again on the same output directory, with one source and the
\* incremental log enabled
\* ------------------------------------------------------------------------

RerunFormatLists == {<<"md", "pdf">>}
RerunLogChoices  == {LogAbsent, LogNotJson, LogDict({Url("h1", "a")})}

InitRerun ==
    /\ formats \in RerunFormatLists
    /\ download_images = FALSE
    /\ incremental = TRUE
    /\ sources = <<"h1">>
    /\ site \in [1..MaxPage -> MainPages]
    /\ \E c \in RerunLogChoices : logFile = [d \in Dirs |-> c]
    /\ InitStart("source")

\* the process has ended and cli is started again: the disk is as the first
\* run left it, everything else starts afresh
cli_restart ==
    /\ pc \in {"done", "crashed"}
    /\ run = 1
    /\ run' = run + 1
    /\ prevRun' = [ended |-> pc, failed |-> failed, walkEnd |-> walkEnd,
                   log |-> logFile["root"]]
    /\ pc' = "source"
    /\ srcIdx' = 1
    /\ processed' = {}
    /\ page' = 1
    /\ all_post_urls' = {}
    /\ todo' = {}
    /\ cur' = <<>>
    /\ post_html' = NoPage
    /\ metadata' = NoMeta
    /\ stem' = [date |-> <<>>, slug |-> <<>>]
    /\ fmtIdx' = 1
    /\ successful' = 0 /\ skipped' = 0 /\ failed' = 0
    /\ pagesReq' = <<>>
    /\ walkEnd' = "none"
    /\ fetched' = {} /\ written' = {} /\ loggedFmt' = {} /\ raisedFmt' = {}
    /\ troubled' = {} /\ outcomeOf' = {} /\ looped' = {}
    /\ images_found' = <<>> /\ imgIdx' = 1 /\ imgOutcome' = <<>>
    /\ imgFile' = <<>>
    /\ summaries' = <<>> /\ sinceSleep' = {}
    /\ UNCHANGED <<cfgVars, diskVars>>

NextRerun ==
    \/ cli_done
    \/ cli_begin_source
    \/ walk_page
    \/ cli_discovered
    \/ cli_skip_post
    \/ psp_fetch
    \/ psp_format
    \/ psp_temp_html
    \/ psp_convert
    \/ psp_finish
    \/ cli_summary
    \/ cli_restart

SpecRerun == InitRerun /\ [][NextRerun]_vars

\* ------------------------------------------------------------------------
\* cli with image download on, one source with one post, run twice on the
\* same output directory without the incremental log
\* ------------------------------------------------------------------------

InitImages ==
    /\ formats = <<"html">>
    /\ download_images = TRUE
    /\ incremental = FALSE
    /\ sources = <<"h1">>
    /\ site = [p \in 1..MaxPage |-> "A"]
    /\ logFile = [d \in Dirs |-> LogAbsent]
    /\ InitStart("source")

NextImages ==
    \/ cli_done
    \/ cli_begin_source
    \/ walk_page
    \/ cli_discovered
    \/ psp_fetch
    \/ img_tag
    \/ img_return
    \/ psp_format
    \/ psp_finish
    \/ cli_summary
    \/ cli_restart

SpecImages == InitImages /\ [][NextImages]_vars

\* ------------------------------------------------------------------------
\* cli on one source whose archive lists two posts of the same day, titled
\* "A" and "a", with or without image download; the image directory of
\* the two posts may hold a file of an earlier run
\* ------------------------------------------------------------------------

EarlierAssets ==
    {{}, {[dir |-> <<"a">>, name |-> ImageFile(<<"a">>, 0, ".png"),
           whole |-> TRUE]}}

InitTwins ==
    /\ formats \in {<<"md", "json">>, <<"pdf", "md">>}
    /\ download_images \in BOOLEAN
    /\ incremental = FALSE
    /\ sources = <<"h1">>
    /\ site = [p \in 1..MaxPage |-> "AT"]
    /\ logFile = [d \in Dirs |-> LogAbsent]
    /\ files = {}
    /\ contents = <<>>
    /\ assets \in (IF download_images THEN EarlierAssets ELSE {{}})
    /\ images_found = <<>>
    /\ imgIdx = 1
    /\ imgOutcome = <<>>
    /\ imgFile = <<>>
    /\ run = 1
    /\ pc = "source"
    /\ srcIdx = 1
    /\ processed = {}
    /\ page = 1
    /\ all_post_urls = {}
    /\ todo = {}
    /\ cur = <<>>
    /\ post_html = NoPage
    /\ metadata = NoMeta
    /\ stem = [date |-> <<>>, slug |-> <<>>]
    /\ fmtIdx = 1
    /\ successful = 0 /\ skipped = 0 /\ failed = 0
    /\ pagesReq = <<>>
    /\ walkEnd = "none"
    /\ fetched = {}
    /\ written = {}
    /\ loggedFmt = {}
    /\ raisedFmt = {}
    /\ troubled = {}
    /\ outcomeOf = {}
    /\ looped = {}
    /\ prevRun = NoRun
    /\ summaries = <<>>
    /\ sinceSleep = {}

NextTwins ==
    \/ cli_done
    \/ cli_begin_source
    \/ walk_page
    \/ cli_discovered
    \/ psp_fetch
    \/ img_tag
    \/ img_return
    \/ psp_format
    \/ psp_temp_html
    \/ psp_convert
    \/ psp_finish
    \/ cli_summary

SpecTwins == InitTwins /\ [][NextTwins]_vars

\* ------------------------------------------------------------------------
\* get_all_post_urls on its own: any host, any pages
\* ------------------------------------------------------------------------

InitWalk ==
    /\ formats = <<"md", "json">>
    /\ download_images = FALSE
    /\ incremental = FALSE
    /\ sources \in {<<h>> : h \in Hosts}
    /\ site \in [1..MaxPage -> PageKinds]
    /\ logFile = [d \in Dirs |-> LogAbsent]
    /\ InitStart("walk")

NextWalk == walk_page

SpecWalk == InitWalk /\ [][NextWalk]_vars

\* ------------------------------------------------------------------------
\* extract_metadata_from_post on its own: any page
\* ------------------------------------------------------------------------

IsoNoon     == Iso("2023", "01", "01") \o <<"T", "12:00:00Z">>
LongDate    == <<"Thursday", ",", " ", "October", " ", "26", ",", " ", "2023">>
ArticleObj  == Obj("NewsArticle", Str(<<"T">>), Dict(Str(<<"A">>)),
                   Str(IsoNoon), Str(<<"x", ",", " ", "y">>))
ListsObj    == Obj("Article", Str(<<"T", "1", "2">>), List(<<Dict(Str(<<"A">>))>>),
                   Str(Iso("2023", "01", "01")),
                   List(<<Str(<<"x">>), Str(<<" ">>), None, Str(<<" ", "y">>)>>))
SparseObj   == Obj("WebPage", None, Str(<<"A">>), None,
                   Str(<<",", "x", " ", ",", " ">>))
DateOnlyObj == Obj("BlogPosting", Str(<<"T">>), Dict(Str(<<"A">>)),
                   Str(Iso("2023", "01", "01") \o <<"T", "23:59:59+02:00">>),
                   Str(<<"x">>))
\* {"headline": [], "author": ["A"], "datePublished": "", "keywords": {..}}
OddObj      == Obj("Article", List(<<>>), List(<<Str(<<"A">>)>>), Str(<<>>),
                   Dict(None))

LdChoices ==
    {LdAbsent, LdMalformed, LdNoString, LdScalar, LdDict(EmptyObj),
     LdDict(ArticleObj), LdDict(ListsObj), LdDict(SparseObj),
     LdDict(DateOnlyObj), LdDict(OddObj), LdList(<<>>),
     LdList(<<LdScalar, LdDict(SparseObj), LdDict(ArticleObj)>>),
     LdList(<<LdDict(SparseObj), LdScalar>>)}

\* what doc.title() gives: nothing, or a title of one or two characters
DocTitles == {None, Str(<<>>), Str(<<"D">>), Str(<<"D", "2">>)}

MetaPages ==
    {PostHtml(ld, a, d, t, dt) :
        ld \in LdChoices,
        a \in {None, Str(<<"M">>)},
        d \in {None, Str(IsoNoon), Str(LongDate), Str(<<"soon">>)},
        t \in {<<>>, <<Str(<<"t">>), Str(<<>>)>>},
        dt \in DocTitles}

InitMeta ==
    /\ formats = <<"md", "json">>
    /\ download_images = FALSE
    /\ incremental = FALSE
    /\ sources = <<"h1">>
    /\ site = [p \in 1..MaxPage |-> "A"]
    /\ logFile = [d \in Dirs |-> LogAbsent]
    /\ files = {}
    /\ contents = <<>>
    /\ assets = {}
    /\ images_found = <<>>
    /\ imgIdx = 1
    /\ imgOutcome = <<>>
    /\ imgFile = <<>>
    /\ run = 1
    /\ pc = "extract"
    /\ srcIdx = 1
    /\ processed = {}
    /\ page = 1
    /\ all_post_urls = {}
    /\ todo = {}
    /\ cur = Url("h1", "a")
    /\ post_html \in MetaPages
    /\ metadata = NoMeta
    /\ stem = [date |-> <<>>, slug |-> <<>>]
    /\ fmtIdx = 1
    /\ successful = 0 /\ skipped = 0 /\ failed = 0
    /\ pagesReq = <<>>
    /\ walkEnd = "none"
    /\ fetched = {}
    /\ written = {}
    /\ loggedFmt = {}
    /\ raisedFmt = {}
    /\ troubled = {}
    /\ outcomeOf = {}
    /\ looped = {}
    /\ prevRun = NoRun
    /\ summaries = <<>>
    /\ sinceSleep = {}

\* line 578: metadata = extract_metadata_from_post(post_html_content, url)
meta_extract ==
    /\ pc = "extract"
    /\ IF ExtractRaises(post_html)
       THEN pc' = "crashed" /\ UNCHANGED metadata
       ELSE /\ metadata' = extract_metadata_from_post(post_html, cur)
            /\ pc' = "extracted"
    /\ UNCHANGED <<cfgVars, imgVars, diskVars, run, srcIdx, processed, page,
                   all_post_urls, todo, cur, post_html, stem, fmtIdx,
                   successful, skipped, failed, histVars>>

\* lines 579-591: the title, from doc.title() where that is longer
meta_title ==
    /\ pc = "extracted"
    /\ metadata' = [metadata EXCEPT
                       !.title = ResolveTitle(@, post_html.doc_title)]
    /\ pc' = "titled"
    /\ UNCHANGED <<cfgVars, imgVars, diskVars, run, srcIdx, processed, page,
                   all_post_urls, todo, cur, post_html, stem, fmtIdx,
                   successful, skipped, failed, histVars>>

NextMeta ==
    \/ meta_extract
    \/ meta_title

SpecMeta == InitMeta /\ [][NextMeta]_vars

\* ------------------------------------------------------------------------
\* Properties
\* ------------------------------------------------------------------------

FormatIdx     == 1..Len(formats)
CurDir        == OutputDir(sources, srcIdx)
InSource      == pc \in {"walk", "walked", "posts", "images", "formats",
                         "pandoc"}
\* the post process_single_post is working on
InProgress    == IF pc \in {"images", "formats", "pandoc"} THEN {cur} ELSE {}
\* the URLs whose call of process_single_post has returned
Returned      == fetched \ InProgress
\* the URLs the persisted log of the current source holds
PersistedUrls == IF logFile[CurDir].kind = "dict" THEN logFile[CurDir].urls
                 ELSE {}
\* the URLs this run put into the in-memory set
RecordedNow   == processed \cap fetched
Accounted(url, i) == <<url, i>> \in written \/ <<url, i>> \in loggedFmt
EnteredLoop(url)  ==
    \E i \in FormatIdx : <<url, i>> \in (written \cup loggedFmt \cup raisedFmt)

\* C1: in incremental mode a post's URL is put into the download log only if
\* every format of the requested list was produced for that post.
C1_LoggedOnlyIfAllFormatsWritten ==
    (incremental /\ InSource) =>
        \A url \in RecordedNow \cup (PersistedUrls \cap fetched) :
            \A i \in FormatIdx : <<url, i>> \in written

\* C3: a post any step of whose processing failed (the request, the
\* extraction, a format) is counted in failed_downloads, and no such failure
\* leaves the per-URL loop.
C3_EveryFailureCountedFailed ==
    /\ \A url \in troubled \cap Returned : <<url, "failed">> \in outcomeOf
    /\ (pc = "crashed" => fetched = {})

\* C4 as stated: once the format loop of a post was entered, every requested
\* format has its file on disk or a logged failure when the call has returned
\* (the format that raised counts as logged, by the post's own error line).
C4_EveryFormatWrittenOrLogged ==
    \A url \in Returned :
        EnteredLoop(url) =>
            \A i \in FormatIdx : Accounted(url, i) \/ <<url, i>> \in raisedFmt

\* C4 amended: an unknown format and a failed pdf/epub conversion are logged
\* and skipped and the loop goes on; when no md/html/json write fails the
\* loop reaches its end with every format written or logged; a failed
\* md/html/json write ends the post there: the formats before it are
\* written or logged, the formats after it are not attempted.
C4_FormatFailuresIsolated ==
    \A url \in Returned :
        EnteredLoop(url) =>
            IF \E i \in FormatIdx : <<url, i>> \in raisedFmt
            THEN LET k == CHOOSE i \in FormatIdx : <<url, i>> \in raisedFmt
                 IN  /\ formats[k] \in TextFormats
                     /\ url \notin looped
                     /\ <<url, "failed">> \in outcomeOf
                     /\ \A i \in FormatIdx :
                          /\ i < k => Accounted(url, i)
                          /\ i >= k => ~Accounted(url, i)
            ELSE /\ url \in looped
                 /\ \A i \in FormatIdx :
                      /\ Accounted(url, i)
                      /\ <<url, i>> \in loggedFmt
                           <=> formats[i] \notin TextFormats
                               /\ <<url, i>> \notin written

\* C4 witness: a post whose first format failed in pandoc or was unknown and
\* whose later format was still written.
C4_Witness ==
    \E url \in Returned :
        /\ url \in looped
        /\ \E i, j \in FormatIdx :
             i < j /\ <<url, i>> \in loggedFmt /\ <<url, j>> \in written

\* C5: at every point of an incremental run every URL this run put into the
\* persisted log has all its requested output files on disk.
C5_PersistedPostsHaveAllFiles ==
    (incremental /\ InSource) =>
        \A url \in PersistedUrls \cap fetched :
            \A i \in FormatIdx :
                FilePath(CurDir, PreparePost(url).stem, formats[i]) \in files

\* C6: a log file that is absent or malformed in any way loads as the empty
\* set and does not stop the run.
C6_MalformedLogLoadsEmpty ==
    /\ pc # "crashed"
    /\ (incremental /\ pc = "walk" /\ pagesReq = <<>>
            /\ logFile[CurDir].kind # "dict") => processed = {}

\* the set the log file loads to when it is well formed
LogUrls(content) == IF content.kind = "dict" THEN content.urls ELSE {}

\* the first run ended normally, counted no post as failed, and its archive
\* walk ended at a page without new URLs, not at an error
CleanFirstRun ==
    /\ run = 2
    /\ prevRun.ended = "done"
    /\ prevRun.failed = 0
    /\ prevRun.walkEnd = "ok"

\* C2 as stated: in a second incremental run on an unchanged source no post
\* is fetched and the persisted set is the one the first run left.
C2_SecondRunFetchesNothing ==
    (run = 2 /\ prevRun.ended = "done") =>
        /\ fetched = {}
        /\ (pc = "done" => LogUrls(logFile["root"]) = LogUrls(prevRun.log))

\* C2 amended: when the first run ended with no post counted as failed and
\* with its archive walk not cut short by an error, the second run fetches
\* no post, skips every URL it discovers and leaves the log file as it was.
C2_SecondRunAfterCleanRunFetchesNothing ==
    CleanFirstRun =>
        /\ fetched = {}
        /\ successful = 0 /\ failed = 0
        /\ pc \in {"posts", "done"} =>
               all_post_urls \subseteq LogUrls(prevRun.log)
        /\ logFile["root"] = prevRun.log

\* C2 witness: a second run after a clean first run that discovered two
\* URLs and skipped both.
C2_Witness ==
    /\ CleanFirstRun
    /\ pc = "done"
    /\ skipped = 2
    /\ Cardinality(all_post_urls) = 2
    /\ walkEnd = "ok"

\* the valid post URLs of archive page p of host h: the selected links that
\* resolve to the host with a path holding the post marker, query removed
PostUrlsOfPage(h, p) ==
    {u \in {SplitQuery(urljoin(NormalizedRoot(h), l.href)) :
              l \in links_on_page(PageLinks(SitePage(p), h))} :
        netloc(u) = h /\ HasPostMarker(urlpath(u))}

\* the URLs of pages 1..k
PostUrlsUpTo(h, k) == UNION {PostUrlsOfPage(h, p) : p \in 1..k}

WalkHost      == sources[srcIdx]
LastRequested == Len(pagesReq)

\* C7: a fetched page whose valid post URLs all lie in the accumulated set
\* (the empty set included) ends the walk: no page is requested after such
\* a page, and the accumulated set is returned as it was.
C7_SubsetPageStopsWalk ==
    (pc \in {"walk", "walked"} /\ srcIdx <= Len(sources)) =>
        /\ \A j \in 1..LastRequested :
             (j < LastRequested \/ pc = "walk") =>
                 ~(PostUrlsOfPage(WalkHost, j)
                      \subseteq PostUrlsUpTo(WalkHost, j - 1))
        /\ (pc = "walked" /\ walkEnd = "ok") =>
             /\ PostUrlsOfPage(WalkHost, LastRequested)
                    \subseteq PostUrlsUpTo(WalkHost, LastRequested - 1)
             /\ all_post_urls = PostUrlsUpTo(WalkHost, LastRequested - 1)

\* C7 witness: the second page holds valid post URLs, all known from the
\* first page, next to links the filter drops; the walk has stopped there.
C7_Witness ==
    /\ pc = "walked" /\ walkEnd = "ok"
    /\ LastRequested = 2
    /\ PostUrlsOfPage(WalkHost, 2) # {}
    /\ PostUrlsOfPage(WalkHost, 2) \subseteq PostUrlsUpTo(WalkHost, 1)
    /\ \E l \in PageLinks(SitePage(2), WalkHost) :
           ~ValidLink(NormalizedRoot(WalkHost), l.href)
    /\ all_post_urls = PostUrlsOfPage(WalkHost, 1)

WalkErrors == {"404", "http_error", "network_error", "unexpected"}

\* C8: get_all_post_urls never raises; an error at page n ends the walk with
\* the URLs of pages 1..n-1, which cli then processes before it goes on to
\* the next source.
C8_WalkErrorReturnsAccumulated ==
    /\ (pc = "crashed" => pagesReq = <<>>)
    /\ (pc \in {"walked", "posts", "formats", "pandoc"}
            /\ walkEnd \in WalkErrors) =>
           /\ all_post_urls = PostUrlsUpTo(WalkHost, LastRequested - 1)
           /\ pc # "walked" =>
                  todo \cup {p[1] : p \in outcomeOf} \cup InProgress
                      = all_post_urls
    /\ (pc = "source" /\ srcIdx > 1 /\ sources[srcIdx - 1] # ""
            /\ walkEnd \in WalkErrors) =>
           {p[1] : p \in outcomeOf} = all_post_urls

\* C8 witness: the walk of the first of two sources broke off at page 2 with
\* a network error, the URL of page 1 was processed, and cli has gone on to
\* the second source.
C8_Witness ==
    /\ Len(sources) = 2 /\ srcIdx = 2 /\ pc = "source"
    /\ walkEnd = "network_error"
    /\ LastRequested = 2
    /\ all_post_urls # {}
    /\ successful = 1

\* scheme, host, path and fragment of a URL: the URL without its query
WithoutQuery(u) ==
    LET q == FirstIndex(u, "?")
        f == FirstIndex(u, "#")
    IN  IF q < f THEN SubSeq(u, 1, q - 1) \o SubSeq(u, f, Len(u)) ELSE u

\* the links of pages 1..k that pass the selector and the filter, resolved
AcceptedLinks(h, k) ==
    {urljoin(NormalizedRoot(h), l.href) :
        l \in {m \in UNION {links_on_page(PageLinks(SitePage(p), h)) :
                              p \in 1..k} :
                 ValidLink(NormalizedRoot(h), m.href)}}

\* C9: every returned URL is on the host of the source, has the post marker
\* in its path and carries no query; links that differ only in their query
\* yield one returned URL.
C9_ReturnedUrlsCanonical ==
    (pc = "walked" /\ walkEnd = "ok") =>
        /\ \A u \in all_post_urls :
             /\ netloc(u) = WalkHost
             /\ HasPostMarker(urlpath(u))
             /\ urlquery(u) = <<>>
        /\ Cardinality(all_post_urls)
             = Cardinality({WithoutQuery(u) :
                              u \in AcceptedLinks(WalkHost, LastRequested - 1)})

\* the structured-data block is one object with a headline, an author
\* object with a name, an ISO-8601 datetime and a keywords string
FullStructuredData(html) ==
    /\ html.ld.k = "dict"
    /\ ~html.ld.obj.empty
    /\ IsStr(html.ld.obj.headline)
    /\ html.ld.obj.author.t = "dict" /\ IsStr(html.ld.obj.author.name)
    /\ IsStr(html.ld.obj.datePublished)
    /\ Len(html.ld.obj.datePublished.s) = 7
    /\ IsIsoDateTime(html.ld.obj.datePublished.s)
    /\ IsStr(html.ld.obj.keywords)

\* the tags are the pieces of the keywords string between the commas,
\* without surrounding blanks, the empty ones left out
TagsOfKeywords(tags, keywords) ==
    /\ \A i \in 1..Len(tags) :
         /\ tags[i].s # <<>>
         /\ Head(tags[i].s) # " " /\ tags[i].s[Len(tags[i].s)] # " "
         /\ "," \notin Range(tags[i].s)
    /\ Len(tags) = Cardinality({i \in 1..Len(Split(keywords, ",")) :
                                  Range(Split(keywords, ",")[i]) \ {" "} # {}})

\* C10: from a full structured-data block the title is the headline, the
\* author is author.name, the published date is the YYYY-MM-DD day of
\* datePublished, and the tags are the trimmed non-empty keywords.
C10_StructuredDataExtraction ==
    (pc = "extracted" /\ FullStructuredData(post_html)) =>
        /\ metadata.title = post_html.ld.obj.headline
        /\ metadata.author = post_html.ld.obj.author.name
        /\ metadata.published_date
             = Str(SubSeq(post_html.ld.obj.datePublished.s, 1, 5))
        /\ TagsOfKeywords(metadata.tags, post_html.ld.obj.keywords.s)

\* text holds t as a contiguous piece
Contains(text, t) ==
    \E i \in 0..(Len(text) - Len(t)) : SubSeq(text, i + 1, i + Len(t)) = t

\* the posts of the current source whose call returned True after a fetch
Downloaded == {url \in fetched : <<url, "downloaded">> \in outcomeOf}

\* the resolved title and the published date of a post
TitleOf(url) == PreparePost(url).metadata.title.s
DateOf(url)  == PreparePost(url).metadata.published_date.s

\* <d as YYYYMMDD>_<slug(t)>.<fmt> in the output directory of the source;
\* d starts with the year, the month and the day between hyphens
ExpectedFile(url, fmt) ==
    [dir  |-> CurDir,
     stem |-> [date |-> <<DateOf(url)[1], DateOf(url)[3], DateOf(url)[5]>>,
               slug |-> slugify(TitleOf(url))],
     ext  |-> fmt]

\* C11 as stated: after a successful process_single_post every requested
\* text format has its file <YYYYMMDD>_<slug(t)>.<fmt> in the source's
\* output directory, the text of the file contains the title t, and with a
\* single source the directory is the output root.
C11_TextFilesNamedAndHoldTitle ==
    pc \in {"posts", "formats", "pandoc"} =>
        \A url \in Downloaded : \A i \in FormatIdx :
            formats[i] \in TextFormats =>
                /\ ExpectedFile(url, formats[i]) \in files
                /\ Contains(contents[ExpectedFile(url, formats[i])],
                            TitleOf(url))
                /\ Len(sources) = 1 =>
                       ExpectedFile(url, formats[i]).dir = "root"

\* C11 amended: the file exists under that name and in that directory; the
\* md and html files contain t as it is, the json file contains t as a JSON
\* string, with quotation marks and backslashes escaped.
C11_TextFilesNamedAndHoldEncodedTitle ==
    pc \in {"posts", "formats", "pandoc"} =>
        \A url \in Downloaded : \A i \in FormatIdx :
            formats[i] \in TextFormats =>
                /\ ExpectedFile(url, formats[i]) \in files
                /\ Contains(contents[ExpectedFile(url, formats[i])],
                            IF formats[i] = "json"
                            THEN json_dumps(TitleOf(url))
                            ELSE TitleOf(url))
                /\ Len(sources) = 1 =>
                       ExpectedFile(url, formats[i]).dir = "root"

\* C11 witness: with a single source, a post whose date is an ISO datetime
\* and a post whose title holds quotation marks were both downloaded as md
\* and json.
C11_Witness ==
    /\ pc = "posts" /\ Len(sources) = 1
    /\ formats = <<"md", "json">>
    /\ \E u, v \in Downloaded :
          /\ Len(DateOf(u)) = 7
          /\ Quote \in Range(TitleOf(v))
          /\ ExpectedFile(v, "json") \in files

\* the img tags of the current post as the page served them, the positions
\* the loop has handled, and the directory of the post's images
Originals    == PostImages(PostId(cur))
Handled      == 1..Len(imgOutcome)
AssetsSlug   == post_assets_slug(metadata.title, cur)
Saved(i)     == imgOutcome[i] = "ok"
\* tags i and j derive the same base name and extension
SameName(i, j) ==
    /\ Originals[i].k = "remote" /\ Originals[j].k = "remote"
    /\ ImageBase(Originals, i) = ImageBase(Originals, j)
    /\ ImageExt(Originals[i]) = ImageExt(Originals[j])
Earlier(i)   == {j \in Handled : j < i /\ SameName(i, j)}

\* C12: of the images of one fragment that derive the same name, the first
\* is saved as name.ext, the next as name_1.ext and so on, by encounter
\* order alone, and each src is rewritten to the image's own local name
\* (stated for images all of whose same-named predecessors were saved).
C12_SuffixByEncounterOrder ==
    \A i \in Handled :
        (Saved(i) /\ \A j \in Earlier(i) : Saved(j)) =>
            images_found[i] =
                LocalSrc(AssetsSlug,
                         ImageFile(ImageBase(Originals, i),
                                   Cardinality(Earlier(i)),
                                   ImageExt(Originals[i])))

\* C13: an image whose download or save failed keeps its src, the other
\* images are still handled, the function returns and the rendering of the
\* post begins; a src is a local path only if the file it names was written
\* in full in the post's image directory.
C13_ImageFailuresIsolated ==
    /\ \A i \in Handled :
         /\ ~Saved(i) => images_found[i] = Originals[i]
         /\ images_found[i].k = "local" =>
                /\ images_found[i].slug = AssetsSlug
                /\ [dir |-> AssetsSlug, name |-> images_found[i].name,
                    whole |-> TRUE] \in assets
    /\ (imgOutcome # <<>> /\ pc # "images") =>
           /\ Len(imgOutcome) = Len(Originals)
           /\ pc = "formats" \/ EnteredLoop(cur)

\* C13 witness: the write of the first image broke off and a later image
\* was saved and rewritten; the format loop of the post has begun.
C13_Witness ==
    /\ pc = "formats"
    /\ \E i, j \in Handled :
          /\ i < j
          /\ imgOutcome[i] = "write_breaks"
          /\ images_found[i] = Originals[i]
          /\ Saved(j) /\ images_found[j].k = "local"
    /\ \E i \in Handled : imgOutcome[i] = "request_fails"

\* the temporary documents on disk
TempFiles == {f \in files : f.ext = "_temp.html"}

\* C14: the temporary document of a pdf or epub rendering lies in the
\* source's output directory under the date prefix and slug of the output
\* file, and it is on disk only while that format is being rendered: it is
\* gone when the rendering has ended, in success and in failure.
C14_TempDocumentScoped ==
    /\ pc # "pandoc" => TempFiles = {}
    /\ pc = "pandoc" =>
           /\ formats[fmtIdx] \in PandocFormats
           /\ TempFiles = {[dir  |-> CurDir,
                            stem |-> ExpectedFile(cur, formats[fmtIdx]).stem,
                            ext  |-> "_temp.html"]}

\* C14 witness: the pdf rendering of an earlier post failed and was logged,
\* and the temporary document of the current post is on disk for pandoc.
C14_Witness ==
    /\ pc = "pandoc"
    /\ formats[fmtIdx] = "pdf"
    /\ temp_html_path(CurDir, stem) \in files
    /\ \E u \in Returned : <<u, fmtIdx>> \in loggedFmt /\ u \in looped

\* the sources cli has left behind
Passed == 1..(Min2(srcIdx, Len(sources) + 1) - 1)

\* C15: for every non-empty source cli has moved past, one that yielded no
\* URLs included, exactly one summary line was logged.
C15_SummaryForEverySource ==
    \A i \in Passed :
        sources[i] # "" =>
            Cardinality({k \in 1..Len(summaries) : summaries[k] = i}) = 1

\* C17: an archive page is not requested while an earlier request of the
\* same walk has had no sleep after it, and a post is not requested while
\* an earlier post request of the run has had no sleep after it.
C17_SleepBetweenFetches ==
    [][/\ (pagesReq # <<>> /\ Len(pagesReq') > Len(pagesReq))
            => "archive" \notin sinceSleep
       /\ (fetched \subseteq fetched' /\ fetched' # fetched)
            => "post" \notin sinceSleep]_vars

\* C16: every run of cli ends: each walk requests at most one page more
\* than it found URLs, and the run reaches "done".
C16_RunTerminates ==
    /\ [](Len(pagesReq) <= Cardinality(all_post_urls) + 1)
    /\ <>(pc = "done")

\* C18: extract_metadata_from_post never raises, whatever the structured-data
\* block and the meta date are; the record it returns has the url of the
\* post, its tags are a list, and a meta date that parses in neither format
\* is kept as written.
MetaDateUsed ==
    /\ ~Truthy(FromJsonLd(post_html.ld, cur).published_date)
    /\ Truthy(post_html.meta_date)

Unparsable(content) == ~IsIsoDateTime(content.s) /\ ~IsLongDate(content.s)

C18_ExtractionIsTotal ==
    /\ pc # "crashed"
    /\ pc = "extracted" =>
        /\ metadata.url = cur
        /\ DOMAIN metadata.tags = 1..Len(metadata.tags)
        /\ (MetaDateUsed /\ Unparsable(post_html.meta_date))
               => metadata.published_date = post_html.meta_date

\* a script element without a string, an unparsable meta date
C18_Witness ==
    /\ pc = "extracted"
    /\ post_html.ld = LdNoString
    /\ post_html.meta_date = Str(<<"soon">>)
    /\ metadata.published_date = Str(<<"soon">>)
    /\ metadata.tags # <<>>

\* C19: author, published_date and tags are resolved one by one: a non-empty
\* value of the structured-data step stays, and a field that step left unset
\* is filled from its meta tag, whatever the other fields are.
C19_FieldsResolvedIndependently ==
    pc = "extracted" =>
        LET m == FromJsonLd(post_html.ld, cur)
        IN  /\ metadata.author =
                   IF Truthy(m.author) THEN m.author
                   ELSE IF Truthy(post_html.meta_author)
                        THEN post_html.meta_author
                        ELSE m.author
            /\ metadata.published_date =
                   IF Truthy(m.published_date) THEN m.published_date
                   ELSE IF Truthy(post_html.meta_date)
                        THEN NormalizedMetaDate(post_html.meta_date)
                        ELSE m.published_date
            /\ metadata.tags =
                   IF m.tags # <<>> THEN m.tags
                   ELSE TruthyOnly(post_html.meta_tags)

\* tags from the structured data, author and date from the meta tags
C19_Witness ==
    /\ pc = "extracted"
    /\ post_html.ld = LdDict(SparseObj)
    /\ post_html.meta_tags # <<>>
    /\ metadata.tags = <<Str(<<"x">>)>>
    /\ metadata.author = Str(<<"M">>)
    /\ metadata.published_date = Str(Iso("2023", "01", "01"))

\* C20: before rendering the title is a non-empty string: the headline of
\* the structured data when only that exists, the title of the content
\* extractor when only that exists, the strictly longer one when both exist
\* (the headline when they are equally long), "Untitled Post" when neither
\* exists.
C20_TitleResolved ==
    pc = "titled" =>
        LET headline == FromJsonLd(post_html.ld, cur).title
            content  == post_html.doc_title
        IN  /\ IsStr(metadata.title) /\ metadata.title.s # <<>>
            /\ metadata.title =
                  CASE Truthy(headline) /\ ~Truthy(content) -> headline
                    [] ~Truthy(headline) /\ Truthy(content) -> content
                    [] Truthy(headline) /\ Truthy(content) ->
                         IF Len(content.s) > Len(headline.s)
                         THEN content ELSE headline
                    [] OTHER -> UntitledPost

\* a headline and a content title of the same length
C20_Witness ==
    /\ pc = "titled"
    /\ post_html.ld = LdDict(ArticleObj)
    /\ post_html.doc_title = Str(<<"D">>)
    /\ metadata.title = Str(<<"T">>)

\* C21: every save_to_download_log call leaves the persisted URLs equal to
\* the in-memory set, which is the set before the call with the recorded URL
\* added; and no step of a run takes a URL out of a persisted log.
C21_LogMirrorsProcessedSet ==
    [][/\ (pc = "formats" /\ fmtIdx > Len(formats) /\ incremental) =>
             /\ processed' = processed \cup {cur}
             /\ logFile'[CurDir].kind = "dict"
             /\ logFile'[CurDir].urls = processed'
       /\ \A d \in Dirs : LogUrls(logFile[d]) \subseteq LogUrls(logFile'[d])
      ]_vars

\* C22: with the incremental log on, a URL of the list that is in the
\* processed set is not requested and is not the post being worked on; when
\* the loop passes it, it is counted as skipped and nothing on disk changes;
\* a skipped URL was neither requested nor written nor counted otherwise.
C22_ProcessedUrlsSkipped ==
    /\ [](\A url \in all_post_urls :
            <<url, "skipped">> \in outcomeOf =>
                /\ url \notin fetched
                /\ \A i \in FormatIdx : <<url, i>> \notin written
                /\ <<url, "downloaded">> \notin outcomeOf
                /\ <<url, "failed">> \notin outcomeOf)
    /\ [][incremental =>
            \A url \in todo \cap processed :
                /\ url \notin fetched'
                /\ cur' # url
                /\ url \notin todo' =>
                      /\ <<url, "skipped">> \in outcomeOf'
                      /\ skipped' = skipped + 1
                      /\ UNCHANGED <<successful, failed, diskVars>>
         ]_vars

\* the log held post a, the archive lists a and b: a skipped, b downloaded
C22_Witness ==
    /\ pc = "posts" /\ todo = {}
    /\ <<Url("h1", "a"), "skipped">> \in outcomeOf
    /\ <<Url("h1", "b"), "downloaded">> \in outcomeOf
    /\ files # {}

\* C23: the archive pages requested for a source are 1, 2, 3, ... each
\* once, and every step that requests a post requests a URL of the list
\* that was not requested before for this source.
PostRequested == pc = "posts" /\ pc' # "source" /\ skipped' = skipped

C23_NothingRetried ==
    /\ [](\A i \in 1..Len(pagesReq) : pagesReq[i] = i)
    /\ [][PostRequested =>
            /\ cur' \in all_post_urls \ fetched
            /\ fetched' = fetched \cup {cur'}]_vars

\* a walk that ended on a failed request for page 2, and a post whose
\* request failed, with the loop over the posts finished
C23_Witness ==
    /\ pc = "posts" /\ todo = {}
    /\ pagesReq = <<1, 2>> /\ walkEnd = "network_error"
    /\ \E url \in fetched : <<url, "failed">> \in outcomeOf
    /\ \E url \in fetched : <<url, "downloaded">> \in outcomeOf

\* C24: when the summary of a source is logged, every discovered URL went
\* into exactly one of the three counters, so they add up to the number of
\* discovered URLs; without the incremental log nothing is skipped.
CountedAs(kind) == {url \in all_post_urls : <<url, kind>> \in outcomeOf}

C24_CountersPartitionUrls ==
    (pc = "posts" /\ todo = {}) =>
        /\ successful + skipped + failed = Cardinality(all_post_urls)
        /\ successful = Cardinality(CountedAs("downloaded"))
        /\ skipped = Cardinality(CountedAs("skipped"))
        /\ failed = Cardinality(CountedAs("failed"))
        /\ \A url \in all_post_urls :
              Cardinality({k \in {"downloaded", "skipped", "failed"} :
                             <<url, k>> \in outcomeOf}) = 1
        /\ ~incremental => skipped = 0

\* three URLs, one in each counter
C24_Witness ==
    /\ pc = "posts" /\ todo = {}
    /\ successful = 1 /\ skipped = 1 /\ failed = 1
    /\ Cardinality(all_post_urls) = 3

\* C25: a fetched post whose published_date is unset after extraction does
\* not fail for that: if its call returned False, a format raised or the
\* log could not be written; and its files are named with the current date.
C25_MissingDateUsesToday ==
    (post_html # NoPage /\ metadata.published_date = None) =>
        /\ <<cur, "failed">> \in outcomeOf =>
              \/ \E i \in FormatIdx : <<cur, i>> \in raisedFmt
              \/ cur \in looped
        /\ pc \in {"formats", "pandoc"} => stem.date = Today

\* C26: in one run of one source, the files written for two different
\* URLs of the list have different paths.
PathOf(url, i) == FilePath(CurDir, PreparePost(url).stem, formats[i])

C26_PostsWriteDistinctFiles ==
    \A p \in written : \A q \in written :
        p[1] # q[1] => PathOf(p[1], p[2]) # PathOf(q[1], q[2])

\* C27: a step that saves an image writes a file whose name no file of the
\* post's image directory had before; the files of the images of one call
\* have different names, and each rewritten src names the file its own
\* image was saved to, written in full.
ImageSaved ==
    /\ pc = "images" /\ Len(imgFile') = Len(imgFile) + 1
    /\ imgFile'[Len(imgFile')] # NoFile

C27_ImagesNeverOverwrite ==
    /\ [][ImageSaved =>
            \A g \in assets :
                g.dir # AssetsSlug \/ g.name # imgFile'[Len(imgFile')]]_vars
    /\ [](pc \in {"images", "formats", "pandoc"} =>
            \A i \in 1..Len(imgFile) :
               /\ \A j \in 1..Len(imgFile) :
                    (i # j /\ imgFile[i] # NoFile) => imgFile[i] # imgFile[j]
               /\ images_found[i].k = "local" =>
                    /\ images_found[i] = LocalSrc(AssetsSlug, imgFile[i])
                    /\ [dir |-> AssetsSlug, name |-> imgFile[i],
                        whole |-> TRUE] \in assets)

\* a.png is there from an earlier run, post a saved two images named a, and
\* the image a of post t is saved as a_3.png
C27_Witness ==
    /\ pc = "formats" /\ cur = Url("h1", "t")
    /\ images_found = <<LocalSrc(<<"a">>, ImageFile(<<"a">>, 3, ".png"))>>
    /\ Cardinality({g \in assets : g.dir = <<"a">> /\ g.whole}) >= 4

====
